---- MODULE Spec2Model ----
(***************************************************************************)
(* A model of src/main.py: the scoped crawler (crawl_for_email with        *)
(* safe_goto and choose_best_email), the email extraction and selection    *)
(* functions (extract_emails_from_page, clean_email, choose_best_email)    *)
(* and the per-entity run with its result ledger (process_all_charities,   *)
(* append_result, get_resume_index).                                       *)
(*                                                                         *)
(* Strings are TLA+ strings; Len, SubSeq and \o work on them character by  *)
(* character, so substring and prefix tests are computed, not assumed.     *)
(***************************************************************************)
EXTENDS Integers, Sequences, FiniteSets, TLC

VARIABLES
    \* ---- one call of crawl_for_email(page, start_url, max_pages) ----
    start_url,      \* argument
    max_pages,      \* argument
    domain,         \* parsed.netloc (line 167)
    queue,          \* the frontier, a list of URLs (line 171)
    visited,        \* the visited set (line 170)
    cpc,            \* where the call stands: "loop", "goto", "attempted",
                    \* "extract", "done"
    url,            \* the URL popped last (line 191)
    attempts,       \* page.goto attempts made by the running safe_goto call
    lastOutcome,    \* what page.goto just produced, NoOutcome once safe_goto
                    \* has acted on it (response and e are its locals)
    page,           \* what the browser page holds after a navigation, NoPage
                    \* once the crawl has read it
    result,         \* the value the call returned, NoneVal until then
    fetches,        \* number of safe_goto calls issued by the crawl
    enqueued,       \* number of links appended to the frontier after seeding
    allFresh,       \* every page so far loaded, had no email and gave a new link
    \* ---- one run of process_all_charities, and the ledger file ----
    charities,      \* the input list (line 300)
    fileExists,     \* os.path.exists(OUTPUT_FILE)
    fileRows,       \* the CSV records of OUTPUT_FILE below its header
    rpc,            \* where the run stands
    start_index,    \* line 301
    idx,            \* loop variable of line 319
    website_status, \* line 325
    website_url,    \* line 326
    email_status,   \* line 327
    contact_email,  \* line 328
    appendCalls,    \* per index, the append_result calls of the current run
    processed,      \* the indexes whose loop body the current run entered
    runs,           \* number of runs started
    \* ---- one call of choose_best_email ----
    emailOrder,     \* the argument `emails`: the set, in its iteration order
    best,           \* the value the call returned
    \* ---- one call of extract_emails_from_page ----
    html,           \* page.content() (line 149)
    matches,        \* the matches of line 150 the loop of line 152 has yet to take
    extracted,      \* the set `emails` of line 144
    epc             \* where the call stands

crawlVars == <<start_url, max_pages, domain, queue, visited, cpc, url, attempts,
               lastOutcome, page, result, fetches, enqueued, allFresh>>

runVars == <<charities, fileExists, fileRows, rpc, start_index, idx,
             website_status, website_url, email_status, contact_email,
             appendCalls, processed, runs>>

emailVars == <<emailOrder, best, html, matches, extracted, epc>>

vars == <<crawlVars, runVars, emailVars>>

----------------------------------------------------------------------------
(* Bounds of the model *)

\* largest explicit max_pages argument tried besides the default
MaxPagesBound == 3
\* page.goto attempts one safe_goto call may lose to a total outage
MaxRetries == 1
\* links a site may add to the frontier during one crawl
MaxEnqueued == 3
\* entities in the input list
NumCharities == 3
\* runs of process_all_charities over the same input and ledger
MaxRuns == 2
\* addresses in the set handed to choose_best_email
MaxEmails == 3
\* pieces of text in one page's content
MaxTokens == 3

(* Constants of the program *)

\* max_pages=10
DefaultMaxPages == 10

NoneVal == "<None>"

----------------------------------------------------------------------------
(* Strings *)

Range(s) == { s[i] : i \in 1..Len(s) }

Char(s, i) == SubSeq(s, i, i)

\* the characters of a string
Chars(s) == LET cs[t \in STRING] == { Char(t, i) : i \in 1..Len(t) } IN cs[s]

\* Python: sub in s
Contains(s, sub) ==
    \E t \in {s}, u \in {sub} :
        \E i \in 1..(Len(t) - Len(u) + 1) : SubSeq(t, i, i + Len(u) - 1) = u

\* Python: s.startswith(p)
StartsWith(s, p) == Len(s) >= Len(p) /\ SubSeq(s, 1, Len(p)) = p

\* index of the first character of s that is in the set cs, at or after from; 0 if none
FindAny(s, cs, from) ==
    LET first[t \in STRING] ==
            LET hits == { i \in from..Len(t) : Char(t, i) \in cs }
            IN  IF hits = {} THEN 0 ELSE CHOOSE i \in hits : \A j \in hits : i <= j
    IN  first[s]

UpperToLower ==
    [c \in {"A","B","C","D","E","F","G","H","I","J","K","L","M",
            "N","O","P","Q","R","S","T","U","V","W","X","Y","Z"} |->
       CASE c = "A" -> "a" [] c = "B" -> "b" [] c = "C" -> "c" [] c = "D" -> "d"
         [] c = "E" -> "e" [] c = "F" -> "f" [] c = "G" -> "g" [] c = "H" -> "h"
         [] c = "I" -> "i" [] c = "J" -> "j" [] c = "K" -> "k" [] c = "L" -> "l"
         [] c = "M" -> "m" [] c = "N" -> "n" [] c = "O" -> "o" [] c = "P" -> "p"
         [] c = "Q" -> "q" [] c = "R" -> "r" [] c = "S" -> "s" [] c = "T" -> "t"
         [] c = "U" -> "u" [] c = "V" -> "v" [] c = "W" -> "w" [] c = "X" -> "x"
         [] c = "Y" -> "y" [] c = "Z" -> "z"]

\* Python: s.lower(), character by character
Lower(s) ==
    LET low[t \in STRING] ==
            IF t = "" THEN ""
            ELSE LET c == Char(t, 1)
                 IN  (IF c \in DOMAIN UpperToLower THEN UpperToLower[c] ELSE c)
                         \o low[SubSeq(t, 2, Len(t))]
    IN  low[s]

----------------------------------------------------------------------------
(* urllib.parse, as far as crawl_for_email uses it *)

\* urlparse(u).scheme: the text before the first ":", lowercased, when no
\* "/", "?" or "#" comes before that ":"
UrlScheme(u) ==
    LET c == FindAny(u, {":"}, 1)
        d == FindAny(u, {"/", "?", "#"}, 1)
    IN  IF c > 1 /\ (d = 0 \/ c < d) THEN Lower(SubSeq(u, 1, c - 1)) ELSE ""

\* what follows "scheme:"
UrlRest(u) ==
    IF UrlScheme(u) = "" THEN u ELSE SubSeq(u, Len(UrlScheme(u)) + 2, Len(u))

\* urlparse(u).netloc: after "//", up to the next "/", "?" or "#"
UrlNetloc(u) ==
    LET netloc[r \in STRING] ==
            IF StartsWith(r, "//")
            THEN LET e == FindAny(r, {"/", "?", "#"}, 3)
                 IN  IF e = 0 THEN SubSeq(r, 3, Len(r)) ELSE SubSeq(r, 3, e - 1)
            ELSE ""
    IN  netloc[UrlRest(u)]

\* urlparse(u).path with query and fragment: what follows the netloc
UrlTail(u) ==
    LET tail[r \in STRING] ==
            IF StartsWith(r, "//")
            THEN SubSeq(r, 3 + Len(UrlNetloc(u)), Len(r))
            ELSE r
    IN  tail[UrlRest(u)]

\* f"{parsed.scheme}://{parsed.netloc}"
RootUrl(u) == UrlScheme(u) \o "://" \o UrlNetloc(u)

\* the directory of a path: up to and including its last "/" before "?" or "#"
PathDir(t) ==
    LET dir[p \in STRING] ==
            LET q    == FindAny(p, {"?", "#"}, 1)
                stop == IF q = 0 THEN Len(p) ELSE q - 1
                sl   == { i \in 1..stop : Char(p, i) = "/" }
            IN  IF sl = {} THEN "/"
                ELSE SubSeq(p, 1, CHOOSE i \in sl : \A j \in sl : j <= i)
    IN  dir[t]

\* a URL without its fragment
NoFragment(u) ==
    LET h == FindAny(u, {"#"}, 1)
    IN  IF h = 0 THEN u ELSE SubSeq(u, 1, h - 1)

\* urljoin(base, href) for the shapes of href the model's pages hold
UrlJoin(base, href) ==
    IF href = "" THEN base
    ELSE IF UrlScheme(href) # "" THEN href
    ELSE IF StartsWith(href, "//") THEN UrlScheme(base) \o ":" \o href
    ELSE IF StartsWith(href, "/") THEN RootUrl(base) \o href
    ELSE IF StartsWith(href, "#") THEN NoFragment(base) \o href
    ELSE RootUrl(base) \o PathDir(UrlTail(base)) \o href

----------------------------------------------------------------------------
(* safe_goto *)

\* What one page.goto attempt can produce: a response (or None) or an exception
\* with its message.
GotoOutcomes ==
    { [exc |-> FALSE, response |-> TRUE, status |-> st, msg |-> ""] :
          st \in {200, 400} }
    \cup { [exc |-> FALSE, response |-> FALSE, status |-> 0, msg |-> ""] }
    \cup { [exc |-> TRUE, response |-> FALSE, status |-> 0, msg |-> m] :
          m \in { "net::ERR_INTERNET_DISCONNECTED", "Timeout 15000ms exceeded" } }

NoOutcome == [exc |-> FALSE, response |-> FALSE, status |-> 0, msg |-> "<no attempt>"]

\* a plausible slip: every exception is retried
SafeGotoAttempt_RetryAnyError(o) ==
    IF ~o.exc
    THEN IF o.response /\ o.status >= 400 THEN "false" ELSE "true"
    ELSE "retry"

\* One pass of the body of safe_goto's while True loop: "true" and "false" are
\* the values returned, "retry" is the continue of line 72.
SafeGotoAttempt(o) ==
    IF ~o.exc
    THEN IF o.response /\ o.status >= 400 THEN "false" ELSE "true"
    ELSE IF Contains(Lower(o.msg), "net::err_internet_disconnected")
         THEN "retry"
         ELSE "false"

----------------------------------------------------------------------------
(* choose_best_email *)

GENERIC_PREFIXES ==
    << "info@", "contact@", "enquiries@", "admin@",
       "hello@", "office@", "support@", "team@" >>

\* the first email, in iteration order, that starts with the prefix; 0 if none
FirstWithPrefix(emails, prefix) ==
    LET hits == { i \in 1..Len(emails) : StartsWith(emails[i], prefix) }
    IN  IF hits = {} THEN 0 ELSE CHOOSE i \in hits : \A j \in hits : i <= j

\* a plausible slip: the two loops swapped, so the first email with any
\* generic prefix wins
choose_best_email_EmailFirst(emails) ==
    LET hits == { i \in 1..Len(emails) :
                    \E p \in 1..Len(GENERIC_PREFIXES) :
                        StartsWith(emails[i], GENERIC_PREFIXES[p]) }
    IN  IF hits # {}
        THEN emails[CHOOSE i \in hits : \A j \in hits : i <= j]
        ELSE IF emails # <<>> THEN emails[1] ELSE NoneVal

\* a plausible slip: line 138 returns None whenever no prefix matched
choose_best_email_NoFallback(emails) ==
    LET ps == { p \in 1..Len(GENERIC_PREFIXES) :
                    FirstWithPrefix(emails, GENERIC_PREFIXES[p]) # 0 }
    IN  IF ps # {}
        THEN emails[FirstWithPrefix(emails,
                 GENERIC_PREFIXES[CHOOSE p \in ps : \A q \in ps : p <= q])]
        ELSE NoneVal

\* emails is the set in one iteration order
choose_best_email(emails) ==
    LET ps == { p \in 1..Len(GENERIC_PREFIXES) :
                    FirstWithPrefix(emails, GENERIC_PREFIXES[p]) # 0 }
    IN  IF ps # {}
        THEN emails[FirstWithPrefix(emails,
                 GENERIC_PREFIXES[CHOOSE p \in ps : \A q \in ps : p <= q])]
        ELSE IF emails # <<>> THEN emails[1] ELSE NoneVal

----------------------------------------------------------------------------
(* re, as far as EMAIL_REGEX and clean_email use it *)

Digits == {"0","1","2","3","4","5","6","7","8","9"}

LowerLetters == { UpperToLower[c] : c \in DOMAIN UpperToLower }

Letters == LowerLetters \cup DOMAIN UpperToLower

\* letters outside ASCII that the model's texts hold; \w and \b of a str
\* pattern count them as word characters
OtherWordChars == {"é"}

\* \w
IsWord(c) == c \in Letters \cup Digits \cup {"_"} \cup OtherWordChars

\* [a-zA-Z0-9._%+-]
LocalChars == Letters \cup Digits \cup {".", "_", "%", "+", "-"}

\* [a-zA-Z0-9.-]
DomainChars == Letters \cup Digits \cup {".", "-"}

\* \b at the position before s[i]
WordBoundary(s, i) ==
    (i > 1 /\ IsWord(Char(s, i - 1))) # (i <= Len(s) /\ IsWord(Char(s, i)))

\* the least and the greatest of a non-empty set of integers
MinIn(S) == LET pick[T \in SUBSET Int] == CHOOSE m \in T : \A x \in T : m <= x
            IN  pick[S]

MaxIn(S) == LET pick[T \in SUBSET Int] == CHOOSE m \in T : \A x \in T : x <= m
            IN  pick[S]

\* index of the last character of the longest run of characters of cs that
\* starts at s[i]; i - 1 when s[i] is not in cs
RunEnd(s, cs, i) ==
    LET run[t \in STRING] ==
            LET upto[stops \in SUBSET Int] ==
                    IF stops = {} THEN Len(t) ELSE MinIn(stops) - 1
            IN  IF i > Len(t) THEN i - 1
                ELSE upto[{ j \in i..Len(t) : Char(t, j) \notin cs }]
    IN  run[s]

\* EMAIL_REGEX = r"\b[a-zA-Z0-9._%+-]+@[a-zA-Z0-9.-]+\.[a-zA-Z]{2,}\b" tried at
\* s[i]: the index of the last character of the match, 0 if there is none.
\* The local part is the whole run before "@" (it ends at a); the domain is
\* greedy, so the last "." that is followed by two or more letters and a \b
\* ends it.
EMAIL_REGEX(s, i) ==
    LET match[t \in STRING, a \in Int] ==
            LET tld[dots \in SUBSET Int] ==
                    IF dots = {} THEN 0
                    ELSE RunEnd(t, Letters, MaxIn(dots) + 1)
            IN  IF a < i \/ a >= Len(t) \/ Char(t, a + 1) # "@" THEN 0
                ELSE tld[{ p \in (a + 3)..RunEnd(t, DomainChars, a + 2) :
                             /\ Char(t, p) = "."
                             /\ RunEnd(t, Letters, p + 1) >= p + 2
                             /\ WordBoundary(t, RunEnd(t, Letters, p + 1) + 1) }]
    IN  IF ~WordBoundary(s, i) THEN 0 ELSE match[s, RunEnd(s, LocalChars, i)]

\* re.findall(EMAIL_REGEX, s): the non-overlapping matches, left to right;
\* from[i] is the list of those that start at s[i] or later
FindAll(s) ==
    LET all[t \in STRING] ==
            LET from[i \in Nat] ==
                    LET step[e \in Nat] ==
                            IF e = 0 THEN from[i + 1]
                            ELSE <<SubSeq(t, i, e)>> \o from[e + 1]
                    IN  IF i > Len(t) THEN <<>> ELSE step[EMAIL_REGEX(t, i)]
            IN  from[1]
    IN  all[s]

\* re.search(EMAIL_REGEX, s): group(0) of the leftmost match, NoneVal if none
Search(s) ==
    LET first[t \in STRING] ==
            LET group[starts \in SUBSET Int] ==
                    IF starts = {} THEN NoneVal
                    ELSE SubSeq(t, MinIn(starts), EMAIL_REGEX(t, MinIn(starts)))
            IN  group[{ i \in 1..Len(t) : EMAIL_REGEX(t, i) # 0 }]
    IN  first[s]

Whitespace == {" ", "\t", "\n"}

\* Python: s.strip()
Strip(s) ==
    LET cut[t \in STRING] ==
            LET trim[keep \in SUBSET Int] ==
                    IF keep = {} THEN "" ELSE SubSeq(t, MinIn(keep), MaxIn(keep))
            IN  trim[{ i \in 1..Len(t) : Char(t, i) \notin Whitespace }]
    IN  cut[s]

----------------------------------------------------------------------------
(* clean_email and extract_emails_from_page *)

VALID_TLD_MIN_LENGTH == 2

MAX_LOCAL_LENGTH == 64

IMAGE_EXTENSIONS ==
    {"png", "jpg", "jpeg", "gif", "webp", "svg", "css", "js", "ico", "pdf"}

\* domain.split(".")[-1]
LastLabel(dom) ==
    LET label[d \in STRING] ==
            LET after[dots \in SUBSET Int] ==
                    IF dots = {} THEN d ELSE SubSeq(d, MaxIn(dots) + 1, Len(d))
            IN  after[{ i \in 1..Len(d) : Char(d, i) = "." }]
    IN  label[dom]

\* a plausible slip: the test of line 119 left out
HasImageExtension_Never(tld) == FALSE

\* line 119
HasImageExtension(tld) == tld \in IMAGE_EXTENSIONS

\* a plausible slip: re.fullmatch in place of re.search at line 128
HasDimensions_FullMatch(dom) ==
    \E d \in {dom} :
        \E j \in 2..(Len(d) - 1) :
            /\ Char(d, j) = "x"
            /\ \A i \in 1..Len(d) : i # j => Char(d, i) \in Digits

\* line 128: re.search(r"\d+x\d+", domain)
HasDimensions(dom) ==
    \E d \in {dom} :
        \E i \in 1..(Len(d) - 2) :
            /\ Char(d, i) \in Digits
            /\ Char(d, i + 1) = "x"
            /\ Char(d, i + 2) \in Digits

\* the cleaned address, or NoneVal
clean_email(email) ==
    LET \* lines 110-131, on the two parts of the match and its last label
        rules[m \in STRING, local \in STRING, dom \in STRING, tld \in STRING] ==
            IF Len(local) > MAX_LOCAL_LENGTH THEN NoneVal
            ELSE IF ~Contains(dom, ".") THEN NoneVal
            ELSE IF HasImageExtension(tld) THEN NoneVal
            ELSE IF ~(/\ Len(tld) >= VALID_TLD_MIN_LENGTH
                      /\ Chars(tld) \subseteq LowerLetters) THEN NoneVal
            ELSE IF Chars(dom) \cap LowerLetters = {} THEN NoneVal
            ELSE IF HasDimensions(dom) THEN NoneVal
            ELSE m
        \* line 106, on group(0) and the place of its "@"
        split[m \in STRING, at \in Int] ==
            rules[m, SubSeq(m, 1, at - 1), SubSeq(m, at + 1, Len(m)),
                  LastLabel(SubSeq(m, at + 1, Len(m)))]
        \* lines 99-103, on the outcome of re.search
        matched[m \in STRING] ==
            IF m = NoneVal THEN NoneVal ELSE split[m, FindAny(m, {"@"}, 1)]
    IN  matched[Search(Lower(Strip(email)))]

\* pieces of page text; a page's content is a few of them in a row
HtmlTokens ==
    { "user@example.com", "User@Example.COM", "user@site-300x200.com",
      "logo@2x.PNG", "a@b.pdf", " ", ".", "-", "é" }

\* the pieces in a row
Concat(ts) ==
    LET cat[n \in Nat] == IF n = 0 THEN "" ELSE cat[n - 1] \o ts[n]
    IN  cat[Len(ts)]

\* what page.content() may return
Htmls == { Concat(ts) : ts \in UNION { [1..n -> HtmlTokens] : n \in 0..MaxTokens } }

\* no call of choose_best_email or extract_emails_from_page in progress
EmailParked ==
    /\ emailOrder = <<>>
    /\ best = NoneVal
    /\ html = ""
    /\ matches = <<>>
    /\ extracted = {}
    /\ epc = "parked"

\* entry of extract_emails_from_page (line 144)
ExtractInit ==
    /\ html \in Htmls
    /\ matches = <<>>
    /\ extracted = {}
    /\ epc = "content"
    /\ emailOrder = <<>>
    /\ best = NoneVal

\* lines 146-149 raise; line 157 catches and line 160 returns the empty set
ExtractRaises ==
    /\ epc = "content"
    /\ epc' = "caught"
    /\ UNCHANGED <<html, matches, extracted, emailOrder, best>>
    /\ UNCHANGED <<crawlVars, runVars>>

\* lines 149-150
ExtractFindAll ==
    /\ epc = "content"
    /\ matches' = FindAll(html)
    /\ epc' = "clean"
    /\ UNCHANGED <<html, extracted, emailOrder, best>>
    /\ UNCHANGED <<crawlVars, runVars>>

\* one pass of the loop of lines 152-155
ExtractClean ==
    /\ epc = "clean"
    /\ matches # <<>>
    /\ LET valid == clean_email(Head(matches))
       IN  extracted' = IF valid # NoneVal THEN extracted \cup {valid}
                        ELSE extracted
    /\ matches' = Tail(matches)
    /\ UNCHANGED <<html, epc, emailOrder, best>>
    /\ UNCHANGED <<crawlVars, runVars>>

\* line 160, the loop over
ExtractReturn ==
    /\ epc = "clean"
    /\ matches = <<>>
    /\ epc' = "returned"
    /\ UNCHANGED <<html, matches, extracted, emailOrder, best>>
    /\ UNCHANGED <<crawlVars, runVars>>

\* addresses a page may show
EmailUniverse ==
    { "jane.doe@acme.org", "bob@acme.org", "info@acme.org",
      "info@shop.acme.org", "contact@acme.org", "team@acme.org" }

\* the iteration orders of the sets of at most MaxEmails of these addresses
EmailSetOrders ==
    UNION { { o \in [1..n -> EmailUniverse] :
                \A i, j \in 1..n : i # j => o[i] # o[j] } : n \in 0..MaxEmails }

\* entry of choose_best_email (line 133)
SelectInit ==
    /\ emailOrder \in EmailSetOrders
    /\ best = NoneVal
    /\ epc = "select"
    /\ html = ""
    /\ matches = <<>>
    /\ extracted = {}

\* lines 134-138
Select ==
    /\ epc = "select"
    /\ best' = choose_best_email(emailOrder)
    /\ epc' = "selected"
    /\ UNCHANGED <<emailOrder, html, matches, extracted>>
    /\ UNCHANGED <<crawlVars, runVars>>

----------------------------------------------------------------------------
(* crawl_for_email *)

common_paths ==
    << "/contact", "/contact.php", "/contact-us", "/contact-us.php",
       "/user_contact.php", "/about", "/about.php", "/team" >>

\* lines 171-188: the frontier before the loop
Seeds(start) ==
    <<start>>
    \o (IF start # RootUrl(start) THEN <<RootUrl(start)>> ELSE <<>>)
    \o [i \in 1..Len(common_paths) |-> RootUrl(start) \o common_paths[i]]

\* the start URLs tried
StartUrls == { "https://acme.org", "https://acme.org/team" }

\* The calls tried: each start URL with every small budget, and the default
\* budget (the only one process_all_charities uses) from the site root.
CrawlArgs ==
    { [start |-> u, pages |-> n] : u \in StartUrls, n \in 0..MaxPagesBound }
    \cup { [start |-> "https://acme.org", pages |-> DefaultMaxPages] }

\* The email sets a page may yield (extract_emails_from_page), each in an
\* iteration order of the set.
EmailOrders ==
    { <<>>,
      <<"info@acme.org">>,
      <<"jane.doe@acme.org">>,
      <<"jane.doe@acme.org", "info@acme.org">>,
      <<"contact@acme.org", "info@acme.org">> }

\* The href values of a page's anchors, in DOM order.
LinkLists ==
    { <<>>,
      <<"https://acme.org/team", "https://other.com/acme.org-fake">>,
      <<"", "/news", "https://other.com/x">>,
      <<"#top">> }

\* A loaded page: what extraction finds, the anchors, and how many anchors are
\* read before DOM access raises (all of them when nothing raises).
Pages ==
    { [emails |-> <<>>, links |-> l, nRead |-> Len(l)] : l \in LinkLists }
    \cup { [emails |-> <<>>,
            links |-> <<"https://acme.org/team", "https://other.com/acme.org-fake">>,
            nRead |-> n] : n \in 0..1 }
    \cup { [emails |-> e,
            links |-> <<"https://acme.org/team", "https://other.com/acme.org-fake">>,
            nRead |-> 2] : e \in EmailOrders \ {<<>>} }

NoPage == [emails |-> <<>>, links |-> <<>>, nRead |-> 0]

\* the hrefs read before the except of line 217 ends the loop over the anchors
LinksRead(pg) ==
    SubSeq(pg.links, 1, IF pg.nRead < Len(pg.links) THEN pg.nRead ELSE Len(pg.links))

\* a plausible slip: the host must equal the domain
KeepLink_HostEquals(dom, full_url, vis) ==
    UrlNetloc(full_url) = dom /\ full_url \notin vis

\* line 215
KeepLink(dom, full_url, vis) ==
    Contains(full_url, dom) /\ full_url \notin vis

\* lines 208-216: the URLs appended for the hrefs read, in order
NewLinks(dom, base, hrefs, vis) ==
    LET kept[full_url \in STRING] ==
            IF KeepLink(dom, full_url, vis) THEN <<full_url>> ELSE <<>>
        new[hs \in Seq(STRING)] ==
            IF hs = <<>> THEN <<>>
            ELSE IF Head(hs) = "" THEN new[Tail(hs)]
            ELSE kept[UrlJoin(base, Head(hs))] \o new[Tail(hs)]
    IN  new[hrefs]

\* a plausible slip: the budget test admits one page too many
LoopGuard_OffByOne == queue # <<>> /\ Cardinality(visited) <= max_pages

\* line 190
LoopGuard == queue # <<>> /\ Cardinality(visited) < max_pages

CrawlInit ==
    /\ \E a \in CrawlArgs : start_url = a.start /\ max_pages = a.pages
    /\ domain = UrlNetloc(start_url)
    /\ queue = Seeds(start_url)
    /\ visited = {}
    /\ cpc = "loop"
    /\ url = ""
    /\ attempts = 0
    /\ lastOutcome = NoOutcome
    /\ page = NoPage
    /\ result = NoneVal
    /\ fetches = 0
    /\ enqueued = 0
    /\ allFresh = TRUE

\* line 190 false, line 220
LoopExit ==
    /\ cpc = "loop"
    /\ ~LoopGuard
    /\ cpc' = "done"
    /\ result' = NoneVal
    /\ UNCHANGED <<start_url, max_pages, domain, queue, visited, url, attempts,
                   lastOutcome, page, fetches, enqueued, allFresh>>
    /\ UNCHANGED <<runVars, emailVars>>

\* a plausible slip: the head is read with queue[0] and is not popped
SkipVisited_NoPop ==
    /\ cpc = "loop"
    /\ LoopGuard
    /\ Head(queue) \in visited
    /\ url' = Head(queue)
    /\ UNCHANGED <<start_url, max_pages, domain, queue, visited, cpc, attempts,
                   lastOutcome, page, result, fetches, enqueued, allFresh>>
    /\ UNCHANGED <<runVars, emailVars>>

\* lines 191-194
SkipVisited ==
    /\ cpc = "loop"
    /\ LoopGuard
    /\ Head(queue) \in visited
    /\ url' = Head(queue)
    /\ queue' = Tail(queue)
    /\ UNCHANGED <<start_url, max_pages, domain, visited, cpc, attempts, lastOutcome,
                   page, result, fetches, enqueued, allFresh>>
    /\ UNCHANGED <<runVars, emailVars>>

\* a plausible slip: the test of line 193 left out
Dequeue_Revisit ==
    /\ cpc = "loop"
    /\ LoopGuard
    /\ url' = Head(queue)
    /\ queue' = Tail(queue)
    /\ visited' = visited \cup {Head(queue)}
    /\ fetches' = fetches + 1
    /\ attempts' = 0
    /\ cpc' = "goto"
    /\ UNCHANGED <<start_url, max_pages, domain, lastOutcome, page, result, enqueued,
                   allFresh>>
    /\ UNCHANGED <<runVars, emailVars>>

\* a plausible slip: queue.pop() in place of queue.pop(0)
Dequeue_PopLast ==
    /\ cpc = "loop"
    /\ LoopGuard
    /\ queue[Len(queue)] \notin visited
    /\ url' = queue[Len(queue)]
    /\ queue' = SubSeq(queue, 1, Len(queue) - 1)
    /\ visited' = visited \cup {queue[Len(queue)]}
    /\ fetches' = fetches + 1
    /\ attempts' = 0
    /\ cpc' = "goto"
    /\ UNCHANGED <<start_url, max_pages, domain, lastOutcome, page, result, enqueued,
                   allFresh>>
    /\ UNCHANGED <<runVars, emailVars>>

\* lines 191-199: pop, mark visited, call safe_goto
Dequeue ==
    /\ cpc = "loop"
    /\ LoopGuard
    /\ Head(queue) \notin visited
    /\ url' = Head(queue)
    /\ queue' = Tail(queue)
    /\ visited' = visited \cup {Head(queue)}
    /\ fetches' = fetches + 1
    /\ attempts' = 0
    /\ cpc' = "goto"
    /\ UNCHANGED <<start_url, max_pages, domain, lastOutcome, page, result, enqueued,
                   allFresh>>
    /\ UNCHANGED <<runVars, emailVars>>

\* safe_goto lines 49-54 and 64: page.goto returns a response or raises
GotoAttempt ==
    /\ cpc = "goto"
    /\ \E o \in GotoOutcomes :
          /\ SafeGotoAttempt(o) = "retry" => attempts < MaxRetries
          /\ lastOutcome' = o
    /\ attempts' = attempts + 1
    /\ cpc' = "attempted"
    /\ UNCHANGED <<start_url, max_pages, domain, queue, visited, url, page, result,
                   fetches, enqueued, allFresh>>
    /\ UNCHANGED <<runVars, emailVars>>

\* safe_goto lines 65-72: total outage, sleep and try again
GotoRetry ==
    /\ cpc = "attempted"
    /\ SafeGotoAttempt(lastOutcome) = "retry"
    /\ lastOutcome' = NoOutcome
    /\ cpc' = "goto"
    /\ UNCHANGED <<start_url, max_pages, domain, queue, visited, url, attempts, page,
                   result, fetches, enqueued, allFresh>>
    /\ UNCHANGED <<runVars, emailVars>>

\* a plausible slip: a failed fetch ends the crawl
GotoFail_Fatal ==
    /\ cpc = "attempted"
    /\ SafeGotoAttempt(lastOutcome) = "false"
    /\ lastOutcome' = NoOutcome
    /\ attempts' = 0
    /\ cpc' = "done"
    /\ allFresh' = FALSE
    /\ UNCHANGED <<start_url, max_pages, domain, queue, visited, url, page, result,
                   fetches, enqueued>>
    /\ UNCHANGED <<runVars, emailVars>>

\* safe_goto returns False (lines 58-60, 75-76); lines 199-200 continue
GotoFail ==
    /\ cpc = "attempted"
    /\ SafeGotoAttempt(lastOutcome) = "false"
    /\ lastOutcome' = NoOutcome
    /\ attempts' = 0
    /\ cpc' = "loop"
    /\ allFresh' = FALSE
    /\ UNCHANGED <<start_url, max_pages, domain, queue, visited, url, page, result,
                   fetches, enqueued>>
    /\ UNCHANGED <<runVars, emailVars>>

\* safe_goto returns True (line 62): the browser holds the page of url
GotoOk ==
    /\ cpc = "attempted"
    /\ SafeGotoAttempt(lastOutcome) = "true"
    /\ lastOutcome' = NoOutcome
    /\ attempts' = 0
    /\ \E pg \in Pages :
          /\ page' = pg
          /\ pg.emails = <<>> =>
                enqueued + Len(NewLinks(domain, url, LinksRead(pg), visited))
                    <= MaxEnqueued
    /\ cpc' = "extract"
    /\ UNCHANGED <<start_url, max_pages, domain, queue, visited, url, result, fetches,
                   enqueued, allFresh>>
    /\ UNCHANGED <<runVars, emailVars>>

\* a plausible slip: the email is remembered and the crawl goes on
ReturnEmail_KeepCrawling ==
    /\ cpc = "extract"
    /\ page.emails # <<>>
    /\ result' = choose_best_email(page.emails)
    /\ page' = NoPage
    /\ cpc' = "loop"
    /\ allFresh' = FALSE
    /\ UNCHANGED <<start_url, max_pages, domain, queue, visited, url, attempts,
                   lastOutcome, fetches, enqueued>>
    /\ UNCHANGED <<runVars, emailVars>>

\* lines 202-204
ReturnEmail ==
    /\ cpc = "extract"
    /\ page.emails # <<>>
    /\ result' = choose_best_email(page.emails)
    /\ cpc' = "done"
    /\ allFresh' = FALSE
    /\ UNCHANGED <<start_url, max_pages, domain, queue, visited, url, attempts,
                   lastOutcome, page, fetches, enqueued>>
    /\ UNCHANGED <<runVars, emailVars>>

\* lines 202-218 with no email on the page
DiscoverLinks ==
    /\ cpc = "extract"
    /\ page.emails = <<>>
    /\ \E new \in { NewLinks(domain, url, LinksRead(page), visited) } :
           /\ queue' = queue \o new
           /\ enqueued' = enqueued + Len(new)
           /\ allFresh' = (allFresh /\ \E i \in 1..Len(new) :
                                          new[i] \notin Range(queue))
    /\ page' = NoPage
    /\ cpc' = "loop"
    /\ UNCHANGED <<start_url, max_pages, domain, visited, url, attempts, lastOutcome,
                   result, fetches>>
    /\ UNCHANGED <<runVars, emailVars>>

----------------------------------------------------------------------------
(* The ledger file: load_existing_results, append_result, get_resume_index *)

\* df.to_csv: one CSV record, cell texts in column order
\* to_csv writes None as an empty field
CsvField(v) == IF v = NoneVal THEN "" ELSE v

CsvRecord(row) ==
    << ToString(row.Index), row.CharityName, row.WebsiteStatus,
       CsvField(row.WebsiteURL), row.ContactEmailStatus, row.ContactEmail >>

\* pd.read_csv on the Index column: the integer a cell text denotes
ParseInt(text) == CHOOSE n \in 0..(NumCharities + 1) : ToString(n) = text

\* the columns the program reads back: Index (as int) and Charity Name
ReadName(rec) == rec[2]

ReadIndex(rec) == ParseInt(rec[1])

MaxOf(S) == CHOOSE m \in S : \A x \in S : x <= m

\* load_existing_results: the records read, none when the file is absent or
\* pd.read_csv raises (readOk false)
LoadExisting(exists, rows, readOk) ==
    IF ~exists THEN <<>>
    ELSE IF ~readOk THEN <<>>
    ELSE rows

\* append_result: the records of the file after the call
AppendedRows(exists, rows, readOk, row) ==
    LET existing == LoadExisting(exists, rows, readOk)
    IN  IF existing # <<>>
           /\ \E i \in 1..Len(existing) : ReadName(existing[i]) = row.CharityName
        THEN rows
        ELSE IF existing = <<>>
             THEN <<CsvRecord(row)>>
             ELSE rows \o <<CsvRecord(row)>>

\* get_resume_index
GetResumeIndex(exists, rows, readOk) ==
    IF ~exists THEN 0
    ELSE IF ~readOk THEN 0
    ELSE IF rows = <<>> THEN 0
    ELSE MaxOf({ ReadIndex(rows[i]) : i \in 1..Len(rows) }) + 1

----------------------------------------------------------------------------
(* process_all_charities *)

CharityNames == << "Alpha Trust", "Beta Fund", "Gamma Aid", "Delta Care" >>

\* The input lists tried: every pattern of equal and distinct names over
\* NumCharities entries (names matter to the program only through equality).
CharityLists ==
    { [i \in 1..NumCharities |-> CharityNames[f[i]]] :
        f \in { g \in [1..NumCharities -> 1..Len(CharityNames)] :
                  \A i \in 1..NumCharities :
                     g[i] <= 1 + Cardinality({ g[j] : j \in 1..(i - 1) }) } }

\* what wait_for_website_column can return: "" when the result page shows no
\* website link, else the link's href, which is None when the anchor has none
WebsiteUrls == { "", NoneVal, "https://acme.org" }

\* Python: the truth value of a str or None
Truthy(v) == v # "" /\ v # NoneVal

\* what crawl_for_email can return: None, or the choice from a page's emails
CrawlResults ==
    { NoneVal } \cup { choose_best_email(e) : e \in EmailOrders \ {<<>>} }

\* the row of lines 359-366
CurrentRow ==
    [ Index |-> idx,
      CharityName |-> charities[idx + 1],
      WebsiteStatus |-> website_status,
      WebsiteURL |-> website_url,
      ContactEmailStatus |-> email_status,
      ContactEmail |-> contact_email ]

CrawlParked ==
    /\ start_url = ""
    /\ max_pages = 0
    /\ domain = ""
    /\ queue = <<>>
    /\ visited = {}
    /\ cpc = "parked"
    /\ url = ""
    /\ attempts = 0
    /\ lastOutcome = NoOutcome
    /\ page = NoPage
    /\ result = NoneVal
    /\ fetches = 0
    /\ enqueued = 0
    /\ allFresh = TRUE

RunInit ==
    /\ charities \in CharityLists
    /\ fileExists = FALSE
    /\ fileRows = <<>>
    /\ rpc = "idle"
    /\ start_index = 0
    /\ idx = 0
    /\ website_status = "Not Found"
    /\ website_url = ""
    /\ email_status = "Not Found"
    /\ contact_email = ""
    /\ appendCalls = [i \in 0..(NumCharities - 1) |-> 0]
    /\ processed = {}
    /\ runs = 0

\* the loop of line 319 moves to its next index, or ends (line 379)
NextEntity(i) ==
    /\ idx' = i
    /\ rpc' = IF i < Len(charities) THEN "nav" ELSE "finished"

\* lines 300-303: a run starts and asks the ledger where to resume
StartRun ==
    /\ rpc \in {"idle", "finished", "aborted", "stopped"}
    /\ runs < MaxRuns
    /\ runs' = runs + 1
    /\ \E readOk \in BOOLEAN :
          start_index' = GetResumeIndex(fileExists, fileRows, readOk)
    /\ rpc' = "open"
    /\ idx' = 0
    /\ appendCalls' = [i \in 0..(NumCharities - 1) |-> 0]
    /\ processed' = {}
    /\ website_status' = "Not Found"
    /\ website_url' = ""
    /\ email_status' = "Not Found"
    /\ contact_email' = ""
    /\ UNCHANGED <<charities, fileExists, fileRows>>
    /\ UNCHANGED <<crawlVars, emailVars>>

\* lines 313-315: the registry cannot be opened, the run returns
OpenRegistryFail ==
    /\ rpc = "open"
    /\ rpc' = "aborted"
    /\ UNCHANGED <<charities, fileExists, fileRows, start_index, idx,
                   website_status, website_url, email_status, contact_email,
                   appendCalls, processed, runs>>
    /\ UNCHANGED <<crawlVars, emailVars>>

\* lines 313-319: the registry opened, the loop starts at start_index
OpenRegistryOk ==
    /\ rpc = "open"
    /\ NextEntity(start_index)
    /\ UNCHANGED <<charities, fileExists, fileRows, start_index,
                   website_status, website_url, email_status, contact_email,
                   appendCalls, processed, runs>>
    /\ UNCHANGED <<crawlVars, emailVars>>

\* lines 320-332 with safe_goto(MAIN_URL) False: continue, the append of
\* line 359 is not reached
EntityNavFail ==
    /\ rpc = "nav"
    /\ processed' = processed \cup {idx}
    /\ website_status' = "Not Found"
    /\ website_url' = ""
    /\ email_status' = "Not Found"
    /\ contact_email' = ""
    /\ NextEntity(idx + 1)
    /\ UNCHANGED <<charities, fileExists, fileRows, start_index, appendCalls,
                   runs>>
    /\ UNCHANGED <<crawlVars, emailVars>>

\* lines 320-331 with safe_goto(MAIN_URL) True
EntityNavOk ==
    /\ rpc = "nav"
    /\ processed' = processed \cup {idx}
    /\ website_status' = "Not Found"
    /\ website_url' = ""
    /\ email_status' = "Not Found"
    /\ contact_email' = ""
    /\ rpc' = "search"
    /\ UNCHANGED <<charities, fileExists, fileRows, start_index, idx,
                   appendCalls, runs>>
    /\ UNCHANGED <<crawlVars, emailVars>>

\* lines 334-341 raise: the except of line 356, then the append
EntitySearchRaises ==
    /\ rpc = "search"
    /\ rpc' = "append"
    /\ UNCHANGED <<charities, fileExists, fileRows, start_index, idx,
                   website_status, website_url, email_status, contact_email,
                   appendCalls, processed, runs>>
    /\ UNCHANGED <<crawlVars, emailVars>>

\* a plausible slip: the crawl is started without the test of line 343
EntitySearch_AlwaysCrawl ==
    /\ rpc = "search"
    /\ \E w \in WebsiteUrls :
          /\ website_url' = w
          /\ website_status' = IF Truthy(w) THEN "Found" ELSE website_status
          /\ rpc' = "crawl"
    /\ UNCHANGED <<charities, fileExists, fileRows, start_index, idx,
                   email_status, contact_email, appendCalls, processed, runs>>
    /\ UNCHANGED <<crawlVars, emailVars>>

\* lines 334-345, 353-354: the search gives the website link, or none
EntitySearch ==
    /\ rpc = "search"
    /\ \E w \in WebsiteUrls :
          /\ website_url' = w
          /\ website_status' = IF Truthy(w) THEN "Found" ELSE website_status
          /\ rpc' = IF Truthy(w) THEN "crawl" ELSE "append"
    /\ UNCHANGED <<charities, fileExists, fileRows, start_index, idx,
                   email_status, contact_email, appendCalls, processed, runs>>
    /\ UNCHANGED <<crawlVars, emailVars>>

\* line 347 raises: the except of line 356, then the append
EntityCrawlRaises ==
    /\ rpc = "crawl"
    /\ rpc' = "append"
    /\ UNCHANGED <<charities, fileExists, fileRows, start_index, idx,
                   website_status, website_url, email_status, contact_email,
                   appendCalls, processed, runs>>
    /\ UNCHANGED <<crawlVars, emailVars>>

\* a plausible slip: line 350 outside the test of line 349
EntityCrawl_StatusAlways ==
    /\ rpc = "crawl"
    /\ \E best_email \in CrawlResults :
          /\ email_status' = "Found"
          /\ contact_email' = IF best_email # NoneVal THEN best_email
                              ELSE contact_email
    /\ rpc' = "append"
    /\ UNCHANGED <<charities, fileExists, fileRows, start_index, idx,
                   website_status, website_url, appendCalls, processed, runs>>
    /\ UNCHANGED <<crawlVars, emailVars>>

\* lines 347-352: crawl_for_email returns
EntityCrawl ==
    /\ rpc = "crawl"
    /\ \E best_email \in CrawlResults :
          /\ email_status' = IF best_email # NoneVal THEN "Found" ELSE email_status
          /\ contact_email' = IF best_email # NoneVal THEN best_email
                              ELSE contact_email
    /\ rpc' = "append"
    /\ UNCHANGED <<charities, fileExists, fileRows, start_index, idx,
                   website_status, website_url, appendCalls, processed, runs>>
    /\ UNCHANGED <<crawlVars, emailVars>>

\* lines 359-366: append_result(row), then the next index
EntityAppend ==
    /\ rpc = "append"
    /\ \E readOk \in BOOLEAN :
          fileRows' = AppendedRows(fileExists, fileRows, readOk, CurrentRow)
    /\ fileExists' = TRUE
    /\ appendCalls' = [appendCalls EXCEPT ![idx] = @ + 1]
    /\ NextEntity(idx + 1)
    /\ UNCHANGED <<charities, start_index, website_status, website_url,
                   email_status, contact_email, processed, runs>>
    /\ UNCHANGED <<crawlVars, emailVars>>

\* the process is stopped from outside while a run is in progress
Interrupt ==
    /\ rpc \in {"open", "nav", "search", "crawl", "append"}
    /\ rpc' = "stopped"
    /\ UNCHANGED <<charities, fileExists, fileRows, start_index, idx,
                   website_status, website_url, email_status, contact_email,
                   appendCalls, processed, runs>>
    /\ UNCHANGED <<crawlVars, emailVars>>

Init == RunInit /\ CrawlParked /\ EmailParked

Next ==
    \/ StartRun
    \/ OpenRegistryFail
    \/ OpenRegistryOk
    \/ EntityNavFail
    \/ EntityNavOk
    \/ EntitySearchRaises
    \/ EntitySearch
    \/ EntityCrawlRaises
    \/ EntityCrawl
    \/ EntityAppend
    \/ Interrupt

Spec == Init /\ [][Next]_vars

----------------------------------------------------------------------------
(* The crawl on its own: one call of crawl_for_email, no run in progress *)

RunParked ==
    /\ charities = <<>>
    /\ fileExists = FALSE
    /\ fileRows = <<>>
    /\ rpc = "parked"
    /\ start_index = 0
    /\ idx = 0
    /\ website_status = "Not Found"
    /\ website_url = ""
    /\ email_status = "Not Found"
    /\ contact_email = ""
    /\ appendCalls = <<>>
    /\ processed = {}
    /\ runs = 0

SpecCrawlInit == CrawlInit /\ RunParked /\ EmailParked

SpecCrawlNext ==
    \/ LoopExit
    \/ SkipVisited
    \/ Dequeue
    \/ GotoAttempt
    \/ GotoRetry
    \/ GotoFail
    \/ GotoOk
    \/ ReturnEmail
    \/ DiscoverLinks

SpecCrawl == SpecCrawlInit /\ [][SpecCrawlNext]_vars

\* The call as the interpreter runs it: a step that can be taken is taken.
\* GotoAttempt lets page.goto raise the total-outage error at most MaxRetries
\* times in one safe_goto call, so in every behaviour an outage ends.
SpecCrawlFair == SpecCrawl /\ WF_vars(SpecCrawlNext)

\* Under SpecCrawl: every value a crawl call returns is one EntityCrawl draws
\* from, so the run's one-step view of the call leaves no return value out.
CrawlResultsCover == cpc = "done" => result \in CrawlResults

----------------------------------------------------------------------------
(* choose_best_email on its own, and extract_emails_from_page on its own *)

SpecSelectInit == SelectInit /\ CrawlParked /\ RunParked

SpecSelectNext == Select

SpecSelect == SpecSelectInit /\ [][SpecSelectNext]_vars

SpecExtractInit == ExtractInit /\ CrawlParked /\ RunParked

SpecExtractNext ==
    \/ ExtractRaises
    \/ ExtractFindAll
    \/ ExtractClean
    \/ ExtractReturn

SpecExtract == SpecExtractInit /\ [][SpecExtractNext]_vars

----------------------------------------------------------------------------
(* Claims about the crawl, checked under SpecCrawl *)

\* C1: during one crawl call the visited set never holds more than max_pages
\* URLs and no more than max_pages safe_goto calls are issued, whatever the
\* site returns; and a crawl in which every fetch succeeded, no page had an
\* email and every page gave a new in-domain link ends with exactly max_pages
\* visited URLs and returns None.
C1_PageBudget ==
    /\ Cardinality(visited) <= max_pages
    /\ fetches <= max_pages
    /\ (cpc = "done" /\ allFresh) =>
           (Cardinality(visited) = max_pages /\ result = NoneVal)

\* a crawl with max_pages = 3 over a site of empty pages with fresh links ended
C1_Witness ==
    /\ cpc = "done"
    /\ allFresh
    /\ max_pages = 3
    /\ Cardinality(visited) = 3
    /\ fetches = 3
    /\ enqueued >= 3

\* C2: the crawl returns at the first page that loaded and has an email: the
\* step that reads such a page ends the call with a member of that page's email
\* set and neither fetches nor enqueues; result is set by no other step (so
\* every page read earlier had no email or did not load); after the return
\* nothing is fetched or enqueued.
C2_FirstSuccess ==
    /\ [](result # NoneVal => cpc = "done")
    /\ [][(cpc = "extract" /\ page.emails # <<>>) =>
             /\ cpc' = "done"
             /\ result' \in Range(page.emails)
             /\ queue' = queue
             /\ visited' = visited
             /\ fetches' = fetches]_vars
    /\ [][result' # result => (cpc = "extract" /\ page.emails # <<>>)]_vars
    /\ [][cpc = "done" =>
             UNCHANGED <<cpc, queue, visited, fetches, result>>]_vars

\* the third page fetched was the first with an email, and the crawl returned it
C2_Witness ==
    /\ cpc = "done"
    /\ result = "info@acme.org"
    /\ page.emails = <<"jane.doe@acme.org", "info@acme.org">>
    /\ fetches = 3
    /\ max_pages = DefaultMaxPages
    /\ queue # <<>>

\* the absolute URLs of the hrefs read on the loaded page
C3_Resolved ==
    [i \in 1..Len(LinksRead(page)) |-> UrlJoin(url, LinksRead(page)[i])]

C3_Admitted(u) == Contains(u, domain) /\ u \notin visited

\* C3: reading a page without email appends to the frontier exactly the
\* resolved links that contain the start URL's host as a substring and are not
\* in the visited set, in order; and every URL in the frontier or the visited
\* set contains that host as a substring.
C3_DomainContainment ==
    /\ [](domain = UrlNetloc(start_url))
    /\ [](\A u \in Range(queue) \cup visited : Contains(u, domain))
    /\ [][(cpc = "extract" /\ page.emails = <<>>) =>
             queue' = queue \o SelectSeq(C3_Resolved, C3_Admitted)]_vars

\* with domain acme.org, https://acme.org/team and
\* https://other.com/acme.org-fake were both appended
C3_Witness ==
    /\ domain = "acme.org"
    /\ cpc = "loop"
    /\ enqueued = 2
    /\ Len(queue) >= 2
    /\ queue[Len(queue) - 1] = "https://acme.org/team"
    /\ queue[Len(queue)] = "https://other.com/acme.org-fake"

\* the attempt ended with HTTP status >= 400 or an error other than total outage
C_FetchFailed(o) ==
    \/ ~o.exc /\ o.response /\ o.status >= 400
    \/ o.exc /\ o.msg # "net::ERR_INTERNET_DISCONNECTED"

\* the attempt ended with the total-connectivity-loss error
C_TotalOutage(o) == o.exc /\ o.msg = "net::ERR_INTERNET_DISCONNECTED"

\* C4: when the fetch of the dequeued URL fails, the URL stays in the visited
\* set, the frontier, the counters and the result are unchanged, nothing is
\* extracted, and the crawl is back at the head of its loop; and at the head of
\* the loop, with a non-empty frontier and budget left, the crawl takes the
\* next frontier entry instead of ending.
C4_FailedFetchNotFatal ==
    /\ [][(cpc = "attempted" /\ C_FetchFailed(lastOutcome)) =>
             /\ cpc' = "loop"
             /\ url \in visited'
             /\ visited' = visited
             /\ queue' = queue
             /\ enqueued' = enqueued
             /\ fetches' = fetches
             /\ result' = NoneVal]_vars
    /\ [][(cpc = "loop" /\ queue # <<>> /\ Cardinality(visited) < max_pages) =>
             /\ cpc' \in {"loop", "goto"}
             /\ url' = Head(queue)
             /\ queue' = Tail(queue)]_vars

\* the second fetch of a crawl failed with HTTP 400 while the frontier is not
\* empty and budget is left
C4_Witness ==
    /\ cpc = "attempted"
    /\ lastOutcome.status = 400
    /\ fetches = 2
    /\ url \in visited
    /\ queue # <<>>
    /\ Cardinality(visited) < max_pages

\* C5: after a page.goto attempt, safe_goto tries the same URL again exactly
\* when the attempt failed with total outage, and then the crawl's visited set,
\* frontier and current URL are unchanged; an attempt that failed otherwise
\* makes it return False at once, and a successful attempt makes it return True.
C5_RetryPolicy ==
    [][cpc = "attempted" =>
          /\ C_TotalOutage(lastOutcome) <=> cpc' = "goto"
          /\ C_FetchFailed(lastOutcome) <=> cpc' = "loop"
          /\ (~C_TotalOutage(lastOutcome) /\ ~C_FetchFailed(lastOutcome))
                 <=> cpc' = "extract"
          /\ cpc' = "goto" =>
                 /\ url' = url
                 /\ visited' = visited
                 /\ queue' = queue
                 /\ fetches' = fetches]_vars

\* safe_goto is about to try the same URL again after a total outage
C5_Witness ==
    /\ cpc = "goto"
    /\ attempts >= 1
    /\ url \in visited

----------------------------------------------------------------------------
(* Claims about the run and the ledger, checked under Spec *)

\* C6: once the registry was opened, every entity the run has gone through,
\* from the resume index on, got exactly one append_result call, whatever
\* failed while it was processed, and a finished run has gone through every
\* entity from the resume index to the end of the list.
C6_PerEntityRecording ==
    /\ \A i \in processed :
          (i < idx \/ rpc = "finished") => appendCalls[i] = 1
    /\ rpc = "finished" =>
          processed = { i \in 0..(Len(charities) - 1) : i >= start_index }

C7_NamePresent(name) ==
    \E i \in 1..Len(fileRows) : ReadName(fileRows[i]) = name

\* C7: an append_result call for a name that is already in the ledger leaves
\* the ledger unchanged, and the ledger never holds two records with the same
\* name.
C7_DuplicateSuppression ==
    /\ [](\A i, j \in 1..Len(fileRows) :
             ReadName(fileRows[i]) = ReadName(fileRows[j]) => i = j)
    /\ [][(rpc = "append" /\ C7_NamePresent(charities[idx + 1])) =>
             fileRows' = fileRows]_vars

\* C8: the ledger is append-only: whatever step is taken, the records the
\* ledger held before are a prefix of the records it holds after.
C8_AppendOnly ==
    [][/\ Len(fileRows') >= Len(fileRows)
       /\ SubSeq(fileRows', 1, Len(fileRows)) = fileRows]_vars

\* C9: right after get_resume_index, start_index is 0 when the ledger is
\* absent or empty and otherwise the largest Index in the ledger plus 1; and
\* the run goes through the indexes from start_index upwards, one by one.
C9_ResumeIndex ==
    /\ rpc = "open" =>
          start_index =
              IF ~fileExists \/ fileRows = <<>> THEN 0
              ELSE MaxOf({ ReadIndex(fileRows[i]) : i \in 1..Len(fileRows) }) + 1
    /\ rpc \in {"nav", "search", "crawl", "append", "finished"} =>
          /\ idx >= start_index
          /\ processed \subseteq { i \in 0..idx : i >= start_index }
          /\ { i \in 0..(idx - 1) : i >= start_index } \subseteq processed

\* C10: the Index values of the ledger's records, in file order, never decrease.
C10_IndexOrder ==
    \A i, j \in 1..Len(fileRows) :
       i < j => ReadIndex(fileRows[i]) <= ReadIndex(fileRows[j])

----------------------------------------------------------------------------
(* Claims about choose_best_email, checked under SpecSelect *)

\* the address starts with one of the generic prefixes
C_IsGeneric(e) ==
    \E p \in 1..Len(GENERIC_PREFIXES) : StartsWith(e, GENERIC_PREFIXES[p])

\* the place in GENERIC_PREFIXES of the earliest prefix that some address of
\* the set S starts with
C_EarliestPrefix(S) ==
    CHOOSE p \in 1..Len(GENERIC_PREFIXES) :
        /\ \E e \in S : StartsWith(e, GENERIC_PREFIXES[p])
        /\ \A q \in 1..(p - 1) : \A e \in S : ~StartsWith(e, GENERIC_PREFIXES[q])

\* every iteration order of the set S
C_OrdersOf(S) ==
    { o \in [1..Cardinality(S) -> S] :
        \A i, j \in 1..Cardinality(S) : i # j => o[i] # o[j] }

\* C11: when the set holds an address that starts with a generic prefix, the
\* address choose_best_email returns starts with the earliest prefix of
\* GENERIC_PREFIXES that occurs in the set, in whichever order the set is
\* iterated; {jane.doe@acme.org, info@acme.org} gives info@acme.org and a set
\* with a contact@ and an info@ address gives the info@ one.
C11_GenericPriority ==
    (epc = "selected" /\ \E e \in Range(emailOrder) : C_IsGeneric(e)) =>
        /\ StartsWith(best, GENERIC_PREFIXES[C_EarliestPrefix(Range(emailOrder))])
        /\ Range(emailOrder) = {"jane.doe@acme.org", "info@acme.org"}
               => best = "info@acme.org"
        /\ \A o \in C_OrdersOf(Range(emailOrder)) :
               StartsWith(choose_best_email(o),
                          GENERIC_PREFIXES[C_EarliestPrefix(Range(emailOrder))])

\* the call returned for a set iterated with a contact@ address ahead of an
\* info@ address and a personal one
C11_Witness ==
    /\ epc = "selected"
    /\ emailOrder = <<"contact@acme.org", "jane.doe@acme.org", "info@acme.org">>
    /\ best = "info@acme.org"

\* C12: for one set of addresses, choose_best_email returns the same address
\* in every iteration order of the set.
C12_Determinism ==
    epc = "selected" =>
        \A o \in C_OrdersOf(Range(emailOrder)) : choose_best_email(o) = best

\* C13: choose_best_email returns None exactly when the set is empty, and
\* otherwise an element of the set; a singleton without a generic prefix
\* gives its only element.
C13_ResultMembership ==
    epc = "selected" =>
        /\ best = NoneVal <=> emailOrder = <<>>
        /\ emailOrder # <<>> => best \in Range(emailOrder)
        /\ emailOrder = <<"jane.doe@acme.org">> => best = "jane.doe@acme.org"

\* the call returned for a set of several addresses, none of them generic
C13_Witness ==
    /\ epc = "selected"
    /\ Len(emailOrder) >= 2
    /\ \A e \in Range(emailOrder) : ~C_IsGeneric(e)
    /\ best \in Range(emailOrder)

----------------------------------------------------------------------------
(* Claims about extract_emails_from_page, checked under SpecExtract *)

\* the part of an address or match after its "@"
C_DomainPart(m) == SubSeq(m, FindAny(m, {"@"}, 1) + 1, Len(m))

\* the part of an address or match before its "@"
C_LocalPart(m) == SubSeq(m, 1, FindAny(m, {"@"}, 1) - 1)

\* the final domain label: what follows the last "."
C_FinalLabel(m) == LastLabel(C_DomainPart(m))

\* C14: whatever the page text, no address in the set extract_emails_from_page
\* builds and returns has a final domain label among png, jpg, jpeg, gif, webp,
\* svg, css, js, ico, pdf, and no match whose final label is one of these in
\* any letter case gets into the set.
C14_NoAssetExtension ==
    /\ \A e \in extracted : Lower(C_FinalLabel(e)) \notin IMAGE_EXTENSIONS
    /\ epc \in {"clean", "returned"} =>
           \A i \in 1..Len(FindAll(html)) :
               Lower(C_FinalLabel(FindAll(html)[i])) \in IMAGE_EXTENSIONS
                   => /\ FindAll(html)[i] \notin extracted
                      /\ Lower(FindAll(html)[i]) \notin extracted

\* the call returned a non-empty set for a text that also holds a match with
\* an upper-case asset extension
C14_Witness ==
    /\ epc = "returned"
    /\ extracted # {}
    /\ \E i \in 1..Len(FindAll(html)) :
           /\ C_FinalLabel(FindAll(html)[i]) \notin IMAGE_EXTENSIONS
           /\ Lower(C_FinalLabel(FindAll(html)[i])) \in IMAGE_EXTENSIONS

\* the text holds digits, "x", digits in a row
C15_Dimensions(dom) ==
    \E i, j \in 1..Len(dom) :
        /\ i < j
        /\ j < Len(dom)
        /\ Char(dom, j) = "x"
        /\ \A k \in i..(j - 1) : Char(dom, k) \in Digits
        /\ Char(dom, j + 1) \in Digits

\* the match passes every rejection rule
C15_PassesRules(m) ==
    LET dom == Lower(C_DomainPart(m))
        tld == Lower(C_FinalLabel(m))
    IN  /\ Len(C_LocalPart(m)) <= MAX_LOCAL_LENGTH
        /\ Contains(dom, ".")
        /\ tld \notin IMAGE_EXTENSIONS
        /\ Len(tld) >= VALID_TLD_MIN_LENGTH
        /\ Chars(tld) \subseteq LowerLetters
        /\ Chars(dom) \cap LowerLetters # {}
        /\ ~C15_Dimensions(dom)

\* C15: every match whose domain part holds digits, "x", digits is rejected
\* and is not in the returned set (user@site-300x200.com is rejected), and a
\* match that passes all the rejection rules is in the returned set in lower
\* case (user@example.com is accepted).
C15_DimensionRejection ==
    epc = "returned" =>
        /\ \A e \in extracted : ~C15_Dimensions(C_DomainPart(e))
        /\ \A i \in 1..Len(FindAll(html)) :
               LET m == FindAll(html)[i]
               IN  /\ C15_Dimensions(C_DomainPart(m)) =>
                          m \notin extracted /\ Lower(m) \notin extracted
                   /\ C15_PassesRules(m) => Lower(m) \in extracted
        /\ html = "user@site-300x200.com" => extracted = {}
        /\ html = "user@example.com" => extracted = {"user@example.com"}

----------------------------------------------------------------------------
(* Claims about the records of a run, checked under Spec *)

\* the record append_result writes for the entity at index i of the run's
\* list when no website and no email were found
C16_NegativeRecord(i) ==
    << ToString(i), charities[i + 1], "Not Found", "", "Not Found", "" >>

\* C16: when the registry search gives no website URL for an entity, the
\* crawl is not invoked for it, and the row handed to append_result, and the
\* record the call writes, has website status Not Found, an empty website
\* URL, email status Not Found and an empty contact email.
C16_NegativeResult ==
    [][ /\ (rpc = "search" /\ ~Truthy(website_url')) => rpc' # "crawl"
        /\ rpc' = "crawl" => Truthy(website_url')
        /\ (rpc = "append" /\ ~Truthy(website_url)) =>
              /\ CsvRecord(CurrentRow) = C16_NegativeRecord(idx)
              /\ fileRows' # fileRows =>
                     fileRows'[Len(fileRows')] = C16_NegativeRecord(idx) ]_vars

\* the search of the entity just recorded gave no href, and the ledger ends
\* with that entity's record
C16_Witness ==
    /\ rpc \in {"nav", "finished"}
    /\ idx > 0
    /\ website_url = NoneVal
    /\ fileRows # <<>>
    /\ fileRows[Len(fileRows)] = C16_NegativeRecord(idx - 1)

\* the statuses and values of a record agree
C20_Consistent(rec) ==
    /\ rec[3] \in {"Found", "Not Found"}
    /\ rec[5] \in {"Found", "Not Found"}
    /\ rec[3] = "Found" <=> rec[4] # ""
    /\ rec[5] = "Found" <=> rec[6] # ""
    /\ rec[5] = "Found" => rec[3] = "Found"

\* C20: in the row handed to append_result and in every record of the ledger,
\* the website status is Found exactly when the website URL is not empty, the
\* email status is Found exactly when the contact email is not empty, and
\* email status Found comes with website status Found; this also after an
\* exception cut the entity's processing short.
C20_StatusConsistency ==
    /\ rpc = "append" => C20_Consistent(CsvRecord(CurrentRow))
    /\ \A i \in 1..Len(fileRows) : C20_Consistent(fileRows[i])

\* the ledger holds a record written after the crawl raised (website found,
\* no email) and a record with both found
C20_Witness ==
    /\ \E i \in 1..Len(fileRows) :
           fileRows[i][3] = "Found" /\ fileRows[i][5] = "Not Found"
    /\ \E i \in 1..Len(fileRows) :
           fileRows[i][3] = "Found" /\ fileRows[i][5] = "Found"
    /\ \E i \in 1..Len(fileRows) : fileRows[i][3] = "Not Found"

----------------------------------------------------------------------------
(* Claims about the crawl loop, checked under SpecCrawlFair and SpecCrawl *)

\* C17: every crawl call returns in the end, provided no total outage lasts
\* for ever; it returns on a step exactly when the page just fetched gave an
\* email, or the loop test finds the frontier empty or the visited set at
\* max_pages, with an email in the first case and None in the others.
C17_Termination ==
    /\ <>(cpc = "done")
    /\ [][ /\ (cpc # "done" /\ cpc' = "done") <=>
                 \/ cpc = "extract" /\ page.emails # <<>>
                 \/ cpc = "loop" /\ (queue = <<>> \/ Cardinality(visited) >= max_pages)
           /\ (cpc # "done" /\ cpc' = "done") =>
                 (result' # NoneVal <=> cpc = "extract") ]_vars

\* the call returned None with budget left, the frontier drained
C17_Witness ==
    /\ cpc = "done"
    /\ result = NoneVal
    /\ queue = <<>>
    /\ Cardinality(visited) < max_pages
    /\ fetches > 0

\* C18: no URL is fetched twice in one crawl call: a fetch is always of a URL
\* not yet visited, which joins the visited set, so the fetches are as many as
\* the visited URLs; popping a URL that is already visited issues no fetch,
\* leaves the visited set as it is and uses no budget; and the visited set
\* only grows. (That the frontier can hold one URL twice is C18_Witness.)
C18_NoRevisit ==
    /\ fetches = Cardinality(visited)
    /\ [][ /\ fetches' = Cardinality(visited')
           /\ visited \subseteq visited'
           /\ fetches' # fetches =>
                 /\ fetches' = fetches + 1
                 /\ url' \notin visited
                 /\ visited' = visited \cup {url'}
           /\ (cpc = "loop" /\ queue # <<>> /\ queue' = Tail(queue)
                 /\ Head(queue) \in visited) =>
                 /\ fetches' = fetches
                 /\ visited' = visited
                 /\ cpc' = "loop" ]_vars

\* a call from the site root with the default budget found the /team link on
\* an early page, fetched the nine seeds, and has just popped the second
\* /team entry of the frontier without fetching it
C18_Witness ==
    /\ start_url = "https://acme.org"
    /\ cpc = "loop"
    /\ url = "https://acme.org/team"
    /\ fetches = 9
    /\ Cardinality(visited) = 9
    /\ enqueued = 2
    /\ queue = <<"https://other.com/acme.org-fake">>

\* the seed URLs of a call, as the claim lists them
C19_Seeds(start, root) ==
    <<start>>
    \o (IF start # root THEN <<root>> ELSE <<>>)
    \o << root \o "/contact", root \o "/contact.php", root \o "/contact-us",
          root \o "/contact-us.php", root \o "/user_contact.php",
          root \o "/about", root \o "/about.php", root \o "/team" >>

\* entries popped from the frontier so far
C19_Popped == Len(C19_Seeds(start_url, "https://acme.org")) + enqueued - Len(queue)

\* the seed entries still in the frontier
C19_SeedsLeft ==
    SubSeq(C19_Seeds(start_url, "https://acme.org"), C19_Popped + 1,
           Len(C19_Seeds(start_url, "https://acme.org")))

\* a is b with some entries left out, the order kept
C19_SubsequenceOf(a, b) ==
    \E f \in [1..Len(a) -> 1..Len(b)] :
        /\ \A i \in 1..Len(a) : a[i] = b[f[i]]
        /\ \A i, j \in 1..Len(a) : i < j => f[i] < f[j]

\* C19: the frontier is first in, first out. It starts as the start URL, the
\* site root if different, and the root with each of the eight common paths
\* in their order; every pop takes the front entry, a fetch is of the entry
\* just popped, and links are appended at the back in the order of the page's
\* anchors. So the seed entries not yet popped are always the front of the
\* frontier, ahead of every discovered link, and the first fetch is of the
\* start URL.
C19_FifoOrder ==
    /\ queue = C19_Seeds(start_url, "https://acme.org")
    /\ [][ /\ \/ queue' = queue
              \/ queue # <<>> /\ queue' = Tail(queue) /\ url' = Head(queue)
              \/ /\ Len(queue') > Len(queue)
                 /\ SubSeq(queue', 1, Len(queue)) = queue
                 /\ C19_SubsequenceOf(
                        SubSeq(queue', Len(queue) + 1, Len(queue')),
                        [i \in 1..Len(page.links) |-> UrlJoin(url, page.links[i])])
           /\ fetches' # fetches => queue # <<>> /\ url' = Head(queue)
           /\ (fetches = 0 /\ fetches' = 1) => url' = start_url
           /\ Len(queue') >= Len(C19_SeedsLeft')
           /\ SubSeq(queue', 1, Len(C19_SeedsLeft')) = C19_SeedsLeft' ]_vars

\* a link found on a page is being fetched, every seed having been fetched
\* before it
C19_Witness ==
    /\ cpc = "goto"
    /\ url = "https://acme.org/news"
    /\ fetches = Len(Seeds(start_url)) + 1
    /\ Range(Seeds(start_url)) \subseteq visited

====
